---- MODULE Spec2Model ----
(***************************************************************************)
(* Crypto_trade_monitor.                                                   *)
(*                                                                         *)
(* Part I  : ingestion/producer_binance.py, the Binance WebSocket listener *)
(*           (BinanceTradeProducer) with its reconnect loop, its           *)
(*           signal-driven shutdown and its Kafka producer.                *)
(* Part II : flink-jobs/anomaly_detector.py, the event-time tumbling       *)
(*           window aggregation declared in SQL over topic trades.raw and  *)
(*           the alerts it inserts.                                        *)
(* Part III: the transport of the Kafka producer that build_kafka_conf     *)
(*           configures (retries, idempotence).                            *)
(*                                                                         *)
(* The two programs are separate processes joined by a Kafka topic; each   *)
(* has a specification of its own (Spec / FairSpec for the listener,       *)
(* WindowSpec for the job) over the one set of variables.  PublishSpec is  *)
(* the producer's transport taken alone, FormatSpec is _format_trade taken *)
(* alone as a function of its input.                                       *)
(***************************************************************************)
EXTENDS Integers, Sequences, FiniteSets, TLC

VARIABLES
    \* ---- BinanceTradeProducer (producer_binance.py) ----
    pc,              \* position of the main thread in main()/start()
    stop_event,      \* self.stop_event (threading.Event)
    ws_app,          \* self.ws_app: "none" (None) or "app" (a WebSocketApp)
    app_closed,      \* close() has been called on the object self.ws_app names
    backoff_seconds, \* self._backoff_seconds
    frames,          \* stack of stop() invocations that passed line 96-98
    queue,           \* records buffered in self.kafka_producer
    delivered,       \* records acknowledged by the broker
    pendingErr,      \* failed deliveries whose report awaits poll() or flush()
    msg,             \* the message _on_message was last called with
    record,          \* the record _format_trade last built
    outcome,         \* how the last _on_message call ended
    received,        \* number of _on_message calls
    \* ---- history of the listener (not program state) ----
    delays,          \* delays slept since the last _on_open (or since start)
    sinceOpen,       \* the current run of delays follows an _on_open
    openAfterFails,  \* _on_open last fired after two or more failures in a row
    closeCalls,      \* number of ws_app.close() calls made by stop()
    flushCalls,      \* number of kafka_producer.flush() calls made by stop()
    validSeen,       \* valid trade messages given to _on_message
    accepted,        \* produce() calls the producer accepted
    \* ---- anomaly_detector.py ----
    maxTs,           \* largest rowtime the watermark generator has seen
    watermark,       \* watermark last emitted to the window operator
    acc,             \* open window accumulators: key -> [volume, sum, cnt]
    emitted,         \* rows of windowed_trades emitted so far, in order
    alerts,          \* rows inserted into the alerts table so far, in order
    history,         \* every trade read from trades_raw, with its fate
    arrivals,        \* number of trades read from trades_raw
    \* ---- the Kafka producer's transport (build_kafka_conf) ----
    sendq,           \* logical sends the producer holds, oldest first
    tries,           \* send -> produce requests transmitted for it
    wire,            \* produce requests on their way to the broker
    acks,            \* acknowledgements on their way back
    log,             \* the entries of the topic partition, in order
    lastSeq,         \* the broker's last appended sequence of this producer
    acked,           \* sends reported delivered
    gaveUp,          \* sends reported failed
    \* ---- _format_trade, taken alone ----
    fmt_trade,       \* the trade object given to _format_trade
    fmt_now,         \* time.time() * 1000 at the call
    fmt_record       \* the record it returned (NoRecord before the call)

lvars == <<pc, stop_event, ws_app, app_closed, backoff_seconds, frames, queue,
           delivered, pendingErr, msg, record, outcome, received, delays,
           sinceOpen, openAfterFails, closeCalls, flushCalls, validSeen,
           accepted>>
wvars == <<maxTs, watermark, acc, emitted, alerts, history, arrivals>>
pvars == <<sendq, tries, wire, acks, log, lastSeq, acked, gaveUp>>
fvars == <<fmt_trade, fmt_now, fmt_record>>
vars  == <<lvars, wvars, pvars, fvars>>

\* What the actions of one part leave alone: the variables of the others.
restL == <<wvars, pvars, fvars>>
restW == <<lvars, pvars, fvars>>
restP == <<lvars, wvars, fvars>>
restF == <<lvars, wvars, pvars>>

(***************************************************************************)
(* Bounds of the model.                                                    *)
(***************************************************************************)
MaxFails == 8    \* consecutive failed connection attempts explored
MaxNest  == 2    \* stop() invocations that may be in progress at once
MaxMsgs  == 2    \* messages delivered to _on_message
QueueMax == 1    \* stands for queue.buffering.max.messages (200000)
MaxTrades == 4   \* trades read from trades_raw
MaxSends == 2    \* logical sends given to the producer's transport
MaxTries == 2    \* produce requests transmitted for one send

Min(a, b) == IF a <= b THEN a ELSE b
Max(a, b) == IF a >= b THEN a ELSE b

(***************************************************************************)
(* Part I.  producer_binance.py                                            *)
(***************************************************************************)

EXCHANGE == "binance"

\* A decoded JSON object is a Python dict: `keys` are the keys it holds, the
\* other fields give the value under each key (read only when the key is
\* held).
Full ==
    [keys |-> {"e", "E", "s", "t", "p", "q", "T", "m"},
     e |-> "trade", E |-> 4001, s |-> "btcusdt", t |-> 7, a |-> 9,
     p |-> "100.5", q |-> "0.3", T |-> 4000, m |-> TRUE]

Without(d, ks) == [d EXCEPT !.keys = @ \ ks]

EmptyDict == Without(Full, Full.keys)

\* The combined-stream envelope {"stream": ..., "data": ...} read as a dict.
Envelope == [EmptyDict EXCEPT !.keys = {"stream", "data"}]

\* What the feed hands to _on_message: text that is no JSON, JSON that is
\* no object, or a JSON object, bare or wrapped in the stream envelope.
Invalid == [json |-> "invalid", wrapped |-> FALSE, body |-> EmptyDict]
NotAnObject == [json |-> "list", wrapped |-> FALSE, body |-> EmptyDict]
Wrapped(b) == [json |-> "dict", wrapped |-> TRUE, body |-> b]
Bare(b) == [json |-> "dict", wrapped |-> FALSE, body |-> b]

FeedMessages ==
    { Invalid, NotAnObject,
      Wrapped(Full), Bare(Full),
      Wrapped(Without(Full, {"s"})),
      Wrapped(Without(Full, {"p"})),
      Wrapped(Without(Full, {"q"})),
      Wrapped([Full EXCEPT !.e = "aggTrade"]),
      Wrapped(EmptyDict),
      Bare(Without(Full, {"e"})) }

NoMsg == [json |-> "none", wrapped |-> FALSE, body |-> EmptyDict]

\* int(time.time() * 1000) when the n-th message is handled: the clock moves
\* on between messages.
NowAt(n) == 5000 + 1000 * n

\* dict.get(k, default)
Get(d, k, default) == IF k \in d.keys THEN d[k] ELSE default

\* dict.get(k): None when the key is missing; used only under `or` / `if`.
Has(d, k) == k \in d.keys

\* Python truth of an int, a bool and a dict.
TruthyInt(n) == n # 0

\* str.upper() on the symbols of the model.
Upper(str) ==
    CASE str = "btcusdt" -> "BTCUSDT"
      [] str = "ethusdt" -> "ETHUSDT"
      [] OTHER -> str

Digit == [d \in 0..9 |->
            CASE d = 0 -> "0" [] d = 1 -> "1" [] d = 2 -> "2" [] d = 3 -> "3"
              [] d = 4 -> "4" [] d = 5 -> "5" [] d = 6 -> "6" [] d = 7 -> "7"
              [] d = 8 -> "8" [] OTHER -> "9"]

\* str(n) for a non-negative int: its decimal digits.
RECURSIVE Str(_)
Str(n) == IF n < 10 THEN <<Digit[n]>> ELSE Str(n \div 10) \o <<Digit[n % 10]>>

\* payload.get("data") or payload
PayloadTrade(m) ==
    IF m.wrapped /\ m.body.keys # {} THEN m.body
    ELSE IF m.wrapped THEN Envelope
    ELSE m.body

\* The event time E taken before the trade time T.
TradeTsEventFirst(trade, ingest_ts) ==
    IF Has(trade, "E") /\ TruthyInt(trade.E) THEN trade.E
    ELSE IF Has(trade, "T") /\ TruthyInt(trade.T) THEN trade.T
    ELSE ingest_ts

\* int(trade.get("T") or trade.get("E") or ingest_ts)
TradeTs(trade, ingest_ts) ==
    IF Has(trade, "T") /\ TruthyInt(trade.T) THEN trade.T
    ELSE IF Has(trade, "E") /\ TruthyInt(trade.E) THEN trade.E
    ELSE ingest_ts

\* "sell" if trade.get("m") else "buy"
TradeSide(trade) == IF Has(trade, "m") /\ trade.m THEN "sell" ELSE "buy"

\* str(trade.get("t", trade.get("a", ingest_ts)))
TradeId(trade, ingest_ts) == Str(Get(trade, "t", Get(trade, "a", ingest_ts)))

FormatTrade(trade, ingest_ts) ==
    [ts        |-> TradeTs(trade, ingest_ts),
     ingest_ts |-> ingest_ts,
     exchange  |-> EXCHANGE,
     symbol    |-> Upper(Get(trade, "s", "")),
     trade_id  |-> TradeId(trade, ingest_ts),
     side      |-> TradeSide(trade),
     price     |-> Get(trade, "p", "0"),
     qty       |-> Get(trade, "q", "0")]

NoRecord == [ts |-> 0, ingest_ts |-> 0, exchange |-> "", symbol |-> "",
             trade_id |-> <<>>, side |-> "", price |-> "", qty |-> ""]

\* The trade objects _format_trade is checked on, taken alone: a trade with
\* or without each of the keys T, E, m, t and a, with a trade time and an
\* event time that are zero or not, with the maker flag set or not.
FormatInputs ==
    { [Full EXCEPT !.keys = {"e", "s", "p", "q"} \cup ks,
                   !.T = tt, !.E = ee, !.m = mm] :
        ks \in SUBSET {"T", "E", "m", "t", "a"},
        tt \in {0, Full.T}, ee \in {0, Full.E}, mm \in BOOLEAN }

\* How lines 139-144 of _on_message end for message m:
\*   "invalid_json"  json.loads raised JSONDecodeError (line 152)
\*   "error"         another exception was caught (line 154)
\*   "ignored"       the early return of line 143
\*   "format"        a record is built and handed to produce()
Parse(m) ==
    CASE m.json = "invalid" -> "invalid_json"
      [] m.json = "list" -> "error"
      [] OTHER ->
           LET trade == PayloadTrade(m) IN
           IF trade.keys = {} \/ Get(trade, "e", "") # "trade"
           THEN "ignored" ELSE "format"

MaxBackoff == 60

\* The doubling without its cap.
NextBackoffUncapped(b) == b * 2

\* min(self._backoff_seconds * 2, 60)
NextBackoff(b) == Min(b * 2, MaxBackoff)

\* Main thread code runs only while no stop() invocation is on its stack.
MainRuns == frames = <<>>

ghostL == <<delays, sinceOpen, openAfterFails, closeCalls, flushCalls,
            validSeen, accepted>>
kafka == <<queue, delivered, pendingErr>>

\* Delivery failures reported so far: the records accepted that are neither
\* buffered, nor delivered, nor awaiting their report.
ReportedErr == accepted - queue - delivered - pendingErr
msgs  == <<msg, record, outcome, received>>

\* start(), line 179: while not self.stop_event.is_set()
LoopCheck ==
    /\ MainRuns /\ pc = "check"
    /\ pc' = IF stop_event THEN "exited" ELSE "create"
    /\ UNCHANGED <<stop_event, ws_app, app_closed, backoff_seconds, frames,
                   kafka, msgs, ghostL, restL>>

\* start(), lines 180-187: self.ws_app = WebSocketApp(...)
CreateApp ==
    /\ MainRuns /\ pc = "create"
    /\ ws_app' = "app"
    /\ app_closed' = FALSE
    /\ pc' = "run"
    /\ UNCHANGED <<stop_event, backoff_seconds, frames, kafka, msgs, ghostL,
                   restL>>

\* start(), line 188: run_forever begins.  A close() made on the app before
\* run_forever started may or may not still be in effect (the library
\* re-arms the app when run_forever starts).
RunForever ==
    /\ MainRuns /\ pc = "run"
    /\ pc' = "connecting"
    /\ app_closed' \in {FALSE, app_closed}
    /\ UNCHANGED <<stop_event, ws_app, backoff_seconds, frames, kafka, msgs,
                   ghostL, restL>>

\* main(), lines 259-262: start() raised; main goes to its except branch.
StartRaises ==
    /\ MainRuns /\ pc = "run"
    /\ pc' = "except"
    /\ UNCHANGED <<stop_event, ws_app, app_closed, backoff_seconds, frames,
                   kafka, msgs, ghostL, restL>>

\* _on_open without the reset of line 129.
OnOpenNoReset ==
    /\ MainRuns /\ pc = "connecting" /\ ~app_closed
    /\ pc' = "open"
    /\ openAfterFails' = (Len(delays) >= 2)
    /\ delays' = <<>>
    /\ sinceOpen' = TRUE
    /\ UNCHANGED <<stop_event, ws_app, app_closed, backoff_seconds, frames,
                   kafka, msgs, closeCalls, flushCalls, validSeen, accepted,
                   restL>>

\* _on_open, lines 123-129.
OnOpen ==
    /\ MainRuns /\ pc = "connecting" /\ ~app_closed
    /\ backoff_seconds' = 1
    /\ pc' = "open"
    /\ openAfterFails' = (Len(delays) >= 2)
    /\ delays' = <<>>
    /\ sinceOpen' = TRUE
    /\ UNCHANGED <<stop_event, ws_app, app_closed, frames, kafka, msgs,
                   closeCalls, flushCalls, validSeen, accepted, restL>>

\* The connection attempt fails: _on_error / _on_close log, run_forever
\* returns.
ConnectFail ==
    /\ MainRuns /\ pc = "connecting" /\ ~app_closed
    /\ Len(delays) < MaxFails
    /\ pc' = "returned"
    /\ UNCHANGED <<stop_event, ws_app, app_closed, backoff_seconds, frames,
                   kafka, msgs, ghostL, restL>>

\* An open connection is lost (transport error, missed pong, remote close).
ConnLost ==
    /\ MainRuns /\ pc = "open" /\ ~app_closed
    /\ pc' = "returned"
    /\ UNCHANGED <<stop_event, ws_app, app_closed, backoff_seconds, frames,
                   kafka, msgs, ghostL, restL>>

\* run_forever returns because stop() closed the app.
ReturnClosed ==
    /\ MainRuns /\ pc \in {"connecting", "open"} /\ app_closed
    /\ pc' = "returned"
    /\ UNCHANGED <<stop_event, ws_app, app_closed, backoff_seconds, frames,
                   kafka, msgs, ghostL, restL>>

\* _on_message, lines 139-144 (and the except clauses for what they raise).
Receive(m) ==
    /\ MainRuns /\ pc = "open" /\ ~app_closed
    /\ received < MaxMsgs
    /\ received' = received + 1
    /\ msg' = m
    /\ IF Parse(m) = "format"
       THEN /\ record' = FormatTrade(PayloadTrade(m), NowAt(received))
            /\ outcome' = "formatting"
            /\ validSeen' = validSeen + 1
            /\ pc' = "produce"
       ELSE /\ record' = NoRecord
            /\ outcome' = Parse(m)
            /\ UNCHANGED <<validSeen, pc>>
    /\ UNCHANGED <<stop_event, ws_app, app_closed, backoff_seconds, frames,
                   kafka, delays, sinceOpen, openAfterFails, closeCalls,
                   flushCalls, accepted, restL>>

\* _on_message, lines 145-150: produce() raises BufferError when the local
\* queue is full, which line 154 catches; otherwise poll(0) is next.
Produce ==
    /\ MainRuns /\ pc = "produce"
    /\ IF queue < QueueMax
       THEN /\ queue' = queue + 1
            /\ accepted' = accepted + 1
            /\ outcome' = "produced"
            /\ pc' = "poll"
       ELSE /\ outcome' = "error"
            /\ pc' = "open"
            /\ UNCHANGED <<queue, accepted>>
    /\ UNCHANGED <<stop_event, ws_app, app_closed, backoff_seconds, frames,
                   delivered, pendingErr, msg, record, received, delays,
                   sinceOpen, openAfterFails, closeCalls, flushCalls,
                   validSeen, restL>>

\* A delivery report that raises on an error: the exception leaves poll(0)
\* and is caught at line 154.
ReportFailureRaises ==
    /\ MainRuns /\ pc = "poll"
    /\ pendingErr > 0
    /\ pendingErr' = pendingErr - 1
    /\ outcome' = "error"
    /\ pc' = "open"
    /\ UNCHANGED <<stop_event, ws_app, app_closed, backoff_seconds, frames,
                   queue, delivered, msg, record, received, ghostL, restL>>

\* _delivery_report, lines 109-112, called by poll(0) (line 151) with an
\* error: it logs the error and returns.
ReportFailure ==
    /\ MainRuns /\ pc = "poll"
    /\ pendingErr > 0
    /\ pendingErr' = pendingErr - 1
    /\ UNCHANGED <<pc, stop_event, ws_app, app_closed, backoff_seconds, frames,
                   queue, delivered, msgs, ghostL, restL>>

\* _on_message, line 151: poll(0) returns once the reports are served.
PollReturns ==
    /\ MainRuns /\ pc = "poll"
    /\ pendingErr = 0
    /\ pc' = "open"
    /\ UNCHANGED <<stop_event, ws_app, app_closed, backoff_seconds, frames,
                   kafka, msgs, ghostL, restL>>

\* A loop that ends whenever run_forever returns.
AfterRunBreaks ==
    /\ MainRuns /\ pc = "returned"
    /\ pc' = "exited"
    /\ UNCHANGED <<stop_event, ws_app, app_closed, backoff_seconds, frames,
                   kafka, msgs, ghostL, restL>>

\* start(), lines 190-191: if self.stop_event.is_set(): break
AfterRun ==
    /\ MainRuns /\ pc = "returned"
    /\ pc' = IF stop_event THEN "exited" ELSE "sleep"
    /\ UNCHANGED <<stop_event, ws_app, app_closed, backoff_seconds, frames,
                   kafka, msgs, ghostL, restL>>

\* start(), lines 193-197: time.sleep(self._backoff_seconds)
Sleep ==
    /\ MainRuns /\ pc = "sleep"
    /\ delays' = Append(delays, backoff_seconds)
    /\ pc' = "double"
    /\ UNCHANGED <<stop_event, ws_app, app_closed, backoff_seconds, frames,
                   kafka, msgs, sinceOpen, openAfterFails, closeCalls,
                   flushCalls, validSeen, accepted, restL>>

\* start(), line 198.
Double ==
    /\ MainRuns /\ pc = "double"
    /\ backoff_seconds' = NextBackoff(backoff_seconds)
    /\ pc' = "check"
    /\ UNCHANGED <<stop_event, ws_app, app_closed, frames, kafka, msgs,
                   ghostL, restL>>

\* stop(), lines 96-98: the guard.  TRUE when the call goes on to line 99.
StopGuard == ~stop_event

\* _graceful_exit, lines 249-253: a SIGINT or SIGTERM is delivered and its
\* handler calls producer.stop().  Python runs the handler in the main
\* thread between two bytecodes, also while an earlier stop() is in progress.
Signal ==
    /\ pc # "done"
    /\ Len(frames) < MaxNest
    /\ IF StopGuard
       THEN frames' = Append(frames, "signal")
       ELSE UNCHANGED frames
    /\ UNCHANGED <<pc, stop_event, ws_app, app_closed, backoff_seconds,
                   kafka, msgs, ghostL, restL>>

\* main(), lines 258 and 261: producer.stop() in the except branches, then
\* sys.exit(1).
MainStop ==
    /\ MainRuns /\ pc = "except"
    /\ IF StopGuard
       THEN /\ frames' = Append(frames, "main")
            /\ pc' = "main_stop"
       ELSE /\ pc' = "done"
            /\ UNCHANGED frames
    /\ UNCHANGED <<stop_event, ws_app, app_closed, backoff_seconds, kafka,
                   msgs, ghostL, restL>>

\* stop(), lines 99-105, run by the innermost stop() in progress: set the
\* event, close the app if there is one, flush(10).  flush waits for the
\* queue to drain and may time out with records left; it serves the delivery
\* reports that are due.
StopBody ==
    /\ frames # <<>>
    /\ stop_event' = TRUE
    /\ IF ws_app # "none"
       THEN /\ app_closed' = TRUE
            /\ closeCalls' = closeCalls + 1
       ELSE UNCHANGED <<app_closed, closeCalls>>
    /\ flushCalls' = flushCalls + 1
    /\ \E k \in 0..queue :
          /\ queue' = queue - k
          /\ delivered' = delivered + k
    /\ pendingErr' = 0
    /\ pc' = IF frames[Len(frames)] = "main" THEN "done" ELSE pc
    /\ frames' = SubSeq(frames, 1, Len(frames) - 1)
    /\ UNCHANGED <<ws_app, backoff_seconds, msgs, delays, sinceOpen,
                   openAfterFails, validSeen, accepted, restL>>

\* The producer's background thread delivers a buffered record.
Deliver ==
    /\ pc # "done"
    /\ queue > 0
    /\ queue' = queue - 1
    /\ delivered' = delivered + 1
    /\ UNCHANGED <<pc, stop_event, ws_app, app_closed, backoff_seconds,
                   frames, pendingErr, msgs, ghostL, restL>>

\* The producer's background thread gives up on a buffered record (its
\* retries or its time ran out): the failure awaits its delivery report.
DeliverFail ==
    /\ pc # "done"
    /\ queue > 0
    /\ queue' = queue - 1
    /\ pendingErr' = pendingErr + 1
    /\ UNCHANGED <<pc, stop_event, ws_app, app_closed, backoff_seconds,
                   frames, delivered, msgs, ghostL, restL>>


\* _format_trade (lines 159-172) called on one trade object.
FormatCall ==
    /\ fmt_record = NoRecord
    /\ fmt_record' = FormatTrade(fmt_trade, fmt_now)
    /\ UNCHANGED <<fmt_trade, fmt_now, restF>>


(***************************************************************************)
(* Part II.  anomaly_detector.py                                           *)
(*                                                                         *)
(* The job is three SQL statements; what is modelled is what they declare: *)
(* the rowtime and watermark of trades_raw, the tumbling-window grouping   *)
(* and aggregates of windowed_trades, the filter and the columns of the    *)
(* INSERT INTO alerts.  Times are in milliseconds, amounts                 *)
(* in fixed point (tenths).  The watermark generator is fed by every row   *)
(* of the table and emits periodically, so EmitWatermark is a step of its  *)
(* own; the window operator drops a row whose window the watermark has     *)
(* passed, and fires a window when the watermark reaches its last          *)
(* millisecond.                                                            *)
(***************************************************************************)

WindowSize == 10000   \* INTERVAL '10' SECOND
Lateness   == 5000    \* INTERVAL '5' SECOND
SpikeVolume == 10     \* WHERE volume > 1.0, in tenths

Never == 0 - 1        \* no row seen, no watermark emitted yet

\* The rowtimes of the model, on the boundaries that decide a row's fate: the
\* first millisecond of the first window and of the second, the rowtimes
\* that put the watermark one short of the first window's last millisecond
\* and on it, and the one that puts it on the second window's.
EventTimes ==
    { 0, WindowSize,
      WindowSize + Lateness - 2, WindowSize + Lateness - 1,
      2 * WindowSize + Lateness - 1 }

Symbols == {"BTCUSDT", "ETHUSDT"}

Amounts ==
    { [qty |-> "0.3", price |-> "100"], [qty |-> "0.5", price |-> "300"] }

\* Rows of trades_raw, as far as the job reads them.
Trades ==
    { [ts |-> t, exchange |-> EXCHANGE, symbol |-> y, qty |-> a.qty,
       price |-> a.price] : t \in EventTimes, y \in Symbols, a \in Amounts }

\* CAST(x AS DOUBLE) on the decimal strings of the model, in tenths.
CastDouble(str) ==
    CASE str = "0.3" -> 3
      [] str = "0.5" -> 5
      [] str = "100" -> 1000
      [] str = "300" -> 3000
      [] OTHER -> 0

\* Windows closed at their end, (start, end]: a rowtime on a boundary falls in
\* the window that ends there.
TumbleStartClosedEnd(ts) ==
    IF ts % WindowSize = 0 THEN ts - WindowSize ELSE ts - (ts % WindowSize)

\* TUMBLE(rowtime, INTERVAL '10' SECOND): the window a rowtime falls in.
TumbleStart(ts) == ts - (ts % WindowSize)

\* TUMBLE_END(rowtime, INTERVAL '10' SECOND)
TumbleEnd(start) == start + WindowSize

\* WATERMARK FOR rowtime AS rowtime - INTERVAL '5' SECOND
WatermarkOf(rowtime) == rowtime - Lateness

\* The lateness test taken against the window's end instead of its last
\* millisecond.
IsLateOffByOne(start, wm) == start + WindowSize <= wm

\* A window operator that takes no row for late.
IsLateNever(start, wm) == FALSE

\* The window operator's test on arrival: the watermark has reached the
\* window's last millisecond, so the window has fired and the row is dropped.
IsLate(start, wm) == TumbleEnd(start) - 1 <= wm

\* An accumulator that keeps the last quantity instead of adding it.
AccumulateLast(a, t) ==
    [a EXCEPT !.volume = CastDouble(t.qty),
              !.sum = @ + CastDouble(t.price),
              !.cnt = @ + 1]

\* SUM(CAST(qty AS DOUBLE)), AVG(CAST(price AS DOUBLE)): the accumulator of
\* one group after one more row.
Accumulate(a, t) ==
    [a EXCEPT !.volume = @ + CastDouble(t.qty),
              !.sum = @ + CastDouble(t.price),
              !.cnt = @ + 1]

NewAcc(t) ==
    [symbol |-> t.symbol, exchange |-> t.exchange, start |-> TumbleStart(t.ts),
     volume |-> 0, sum |-> 0, cnt |-> 0]

\* GROUP BY TUMBLE(rowtime, ...) alone: one group per window for all keys.
SameWindowOnly(a, t) == a.start = TumbleStart(t.ts)

\* GROUP BY TUMBLE(rowtime, ...), symbol, exchange
SameGroup(a, t) ==
    /\ a.symbol = t.symbol
    /\ a.exchange = t.exchange
    /\ a.start = TumbleStart(t.ts)

\* The accumulators after row t joined its group (created on first use).
AddToGroup(accs, t) ==
    IF \E a \in accs : SameGroup(a, t)
    THEN LET a == CHOOSE x \in accs : SameGroup(x, t)
         IN  (accs \ {a}) \cup {Accumulate(a, t)}
    ELSE accs \cup {Accumulate(NewAcc(t), t)}

\* The row of windowed_trades a fired window gives; avg_price = sum / cnt is
\* kept as the exact quotient num / den.
ResultRow(a) ==
    [window_end |-> TumbleEnd(a.start), symbol |-> a.symbol,
     exchange |-> a.exchange, volume |-> a.volume,
     avg_price |-> [num |-> a.sum, den |-> a.cnt]]

\* The windows a watermark fires: those whose last millisecond it has reached.
Fired(accs, wm) == { a \in accs : TumbleEnd(a.start) - 1 <= wm }

\* A firing that purges nothing.
EvictNothing(accs, wm) == accs

\* What stays in state after the firing: a fired window is purged.
Evict(accs, wm) == accs \ Fired(accs, wm)

\* Timers that fire in no particular order.
OrderingsAny(S) ==
    { f \in [1..Cardinality(S) -> S] :
        \A i, j \in 1..Cardinality(S) : i # j => f[i] # f[j] }

\* Timers fire in timestamp order; windows of different groups with the same
\* end fire in an order the job does not fix.
Orderings(S) ==
    { f \in [1..Cardinality(S) -> S] :
        /\ \A i, j \in 1..Cardinality(S) : i # j => f[i] # f[j]
        /\ \A i, j \in 1..Cardinality(S) : i < j => f[i].start <= f[j].start }

\* history is a bag of (row, fate): entries [t, late, n], n >= 1.
Count(h, t, late) ==
    IF \E e \in h : e.t = t /\ e.late = late
    THEN (CHOOSE e \in h : e.t = t /\ e.late = late).n
    ELSE 0

AddHist(h, t, late) ==
    { e \in h : ~(e.t = t /\ e.late = late) }
      \cup { [t |-> t, late |-> late, n |-> Count(h, t, late) + 1] }

\* WHERE volume >= 1.0: a window at the threshold alerts too.
IsSpikeAtThreshold(r) == r.volume >= SpikeVolume

\* WHERE volume > 1.0
IsSpike(r) == r.volume > SpikeVolume

\* CAST(window_end AS STRING): the text 'yyyy-MM-dd HH:mm:ss.SSS', kept as
\* its seconds and its milliseconds field.
CastTimestampString(ms) == [seconds |-> ms \div 1000, millis |-> ms % 1000]

\* UNIX_TIMESTAMP(text): parsed with 'yyyy-MM-dd HH:mm:ss', the fraction is
\* not read; the result is in seconds.
UnixTimestamp(text) == text.seconds

\* CAST(UNIX_TIMESTAMP(CAST(window_end AS STRING)) * 1000 AS BIGINT)
AlertTs(window_end) == UnixTimestamp(CastTimestampString(window_end)) * 1000

\* CAST(x AS STRING) of the DOUBLE num / den (in tenths): its decimal text,
\* to the tenth.
CastString(num, den) ==
    Str(num \div (10 * den)) \o <<".">> \o Str((num \div den) % 10)

\* The SELECT list of the INSERT INTO alerts.
Alert(r) ==
    [exchange |-> r.exchange, symbol |-> r.symbol,
     ts |-> AlertTs(r.window_end), signal |-> "volume_spike",
     volume |-> CastString(r.volume, 1),
     avg_price |-> CastString(r.avg_price.num, r.avg_price.den)]

\* INSERT INTO alerts SELECT ... FROM windowed_trades WHERE volume > 1.0,
\* applied to the rows a firing emits, in their order.
AlertsOf(rows) ==
    LET spikes == SelectSeq(rows, IsSpike)
    IN  [i \in 1..Len(spikes) |-> Alert(spikes[i])]

\* The source reads one row of trades_raw: the watermark generator notes its
\* rowtime, the window operator drops it or adds it to its group.
ReadTrade(t) ==
    /\ arrivals < MaxTrades
    /\ arrivals' = arrivals + 1
    /\ maxTs' = Max(maxTs, t.ts)
    /\ IF IsLate(TumbleStart(t.ts), watermark)
       THEN /\ acc' = acc
            /\ history' = AddHist(history, t, TRUE)
       ELSE /\ acc' = AddToGroup(acc, t)
            /\ history' = AddHist(history, t, FALSE)
    /\ UNCHANGED <<watermark, emitted, alerts, restW>>

\* The periodic watermark: it advances to the largest rowtime seen minus the
\* lateness, and every window it has passed fires, earliest end first; the
\* rows go through the filter of the INSERT in the same step.
EmitWatermark ==
    /\ maxTs # Never
    /\ WatermarkOf(maxTs) > watermark
    /\ watermark' = WatermarkOf(maxTs)
    /\ \E f \in Orderings(Fired(acc, watermark')) :
          LET rows == [i \in 1..Len(f) |-> ResultRow(f[i])]
          IN  /\ emitted' = emitted \o rows
              /\ alerts' = alerts \o AlertsOf(rows)
    /\ acc' = Evict(acc, watermark')
    /\ UNCHANGED <<maxTs, history, arrivals, restW>>

(***************************************************************************)
(* Part III.  The transport of the producer build_kafka_conf configures    *)
(*                                                                         *)
(* produce() hands a record to the Kafka client, which numbers it,         *)
(* transmits it in a produce request and transmits it again when no        *)
(* acknowledgement arrives in time; requests and acknowledgements can be   *)
(* lost.  "enable.idempotence": "true" makes the broker remember the last  *)
(* sequence number it appended for this producer and acknowledge, without  *)
(* appending, a request it has already appended.  One send is in flight at *)
(* a time, the oldest first.                                               *)
(***************************************************************************)

\* The configuration without its line 50.
IdempotenceOff == FALSE

\* "enable.idempotence": "true"
EnableIdempotence == TRUE

Sends == 1..MaxSends

\* produce(): the record joins the client's queue under the next number.
Enqueue ==
    /\ Cardinality(acked \cup gaveUp) + Len(sendq) < MaxSends
    /\ sendq' = Append(sendq, Cardinality(acked \cup gaveUp) + Len(sendq) + 1)
    /\ UNCHANGED <<tries, wire, acks, log, lastSeq, acked, gaveUp, restP>>

\* The client transmits the oldest send: for the first time, or again after
\* a request timed out or the connection broke.
Transmit ==
    /\ sendq # <<>>
    /\ tries[Head(sendq)] < MaxTries
    /\ tries' = [tries EXCEPT ![Head(sendq)] = @ + 1]
    /\ wire' = wire \cup {[seq |-> Head(sendq), try |-> tries[Head(sendq)] + 1]}
    /\ UNCHANGED <<sendq, acks, log, lastSeq, acked, gaveUp, restP>>

\* A produce request is lost on the way.
LoseRequest(r) ==
    /\ r \in wire
    /\ wire' = wire \ {r}
    /\ UNCHANGED <<sendq, tries, acks, log, lastSeq, acked, gaveUp, restP>>

\* The broker handles a produce request: it appends the record, unless the
\* producer is idempotent and the sequence number is one it has appended;
\* it acknowledges in both cases.
BrokerAppend(r) ==
    /\ r \in wire
    /\ wire' = wire \ {r}
    /\ IF EnableIdempotence /\ r.seq <= lastSeq
       THEN UNCHANGED <<log, lastSeq>>
       ELSE /\ log' = Append(log, r.seq)
            /\ lastSeq' = Max(lastSeq, r.seq)
    /\ acks' = acks \cup {r}
    /\ UNCHANGED <<sendq, tries, acked, gaveUp, restP>>

\* An acknowledgement is lost on the way back.
LoseAck(a) ==
    /\ a \in acks
    /\ acks' = acks \ {a}
    /\ UNCHANGED <<sendq, tries, wire, log, lastSeq, acked, gaveUp, restP>>

\* An acknowledgement reaches the client: the send it is for, if still the
\* oldest, is reported delivered.
ReceiveAck(a) ==
    /\ a \in acks
    /\ acks' = acks \ {a}
    /\ IF sendq # <<>> /\ Head(sendq) = a.seq
       THEN /\ sendq' = Tail(sendq)
            /\ acked' = acked \cup {a.seq}
       ELSE UNCHANGED <<sendq, acked>>
    /\ UNCHANGED <<tries, wire, log, lastSeq, gaveUp, restP>>

\* The oldest send runs out of time: it is reported failed.
GiveUp ==
    /\ sendq # <<>>
    /\ tries[Head(sendq)] = MaxTries
    /\ sendq' = Tail(sendq)
    /\ gaveUp' = gaveUp \cup {Head(sendq)}
    /\ UNCHANGED <<tries, wire, acks, log, lastSeq, acked, restP>>

(***************************************************************************)
(* Specifications.                                                         *)
(***************************************************************************)

\* __init__ (lines 80-90).
InitL ==
    /\ pc = "check"
    /\ stop_event = FALSE
    /\ ws_app = "none"
    /\ app_closed = FALSE
    /\ backoff_seconds = 1
    /\ frames = <<>>
    /\ queue = 0
    /\ delivered = 0
    /\ pendingErr = 0
    /\ msg = NoMsg
    /\ record = NoRecord
    /\ outcome = "none"
    /\ received = 0
    /\ delays = <<>>
    /\ sinceOpen = FALSE
    /\ openAfterFails = FALSE
    /\ closeCalls = 0
    /\ flushCalls = 0
    /\ validSeen = 0
    /\ accepted = 0

\* The job before its first row.
InitW ==
    /\ maxTs = Never
    /\ watermark = Never
    /\ acc = {}
    /\ emitted = <<>>
    /\ alerts = <<>>
    /\ history = {}
    /\ arrivals = 0

\* The transport before the first produce().
InitP ==
    /\ sendq = <<>>
    /\ tries = [s \in Sends |-> 0]
    /\ wire = {}
    /\ acks = {}
    /\ log = <<>>
    /\ lastSeq = 0
    /\ acked = {}
    /\ gaveUp = {}

\* No call of _format_trade taken alone.
InitF ==
    /\ fmt_trade = EmptyDict
    /\ fmt_now = 0
    /\ fmt_record = NoRecord

Init == InitL /\ InitW /\ InitP /\ InitF

Next ==
    \/ LoopCheck
    \/ CreateApp
    \/ RunForever
    \/ StartRaises
    \/ OnOpen
    \/ ConnectFail
    \/ ConnLost
    \/ ReturnClosed
    \/ \E m \in FeedMessages : Receive(m)
    \/ Produce
    \/ ReportFailure
    \/ PollReturns
    \/ AfterRun
    \/ Sleep
    \/ Double
    \/ Signal
    \/ MainStop
    \/ StopBody
    \/ Deliver
    \/ DeliverFail

\* The listener.
Spec == Init /\ [][Next]_vars

\* What the main thread does by itself, given time: the steps of start(),
\* of a stop() in progress, and run_forever ending once its app is closed.
\* Signals, the peer and the broker are under no obligation.
Progress ==
    \/ LoopCheck
    \/ CreateApp
    \/ RunForever
    \/ ReturnClosed
    \/ Produce
    \/ ReportFailure
    \/ PollReturns
    \/ AfterRun
    \/ Sleep
    \/ Double
    \/ MainStop
    \/ StopBody

\* A connection attempt ends, one way or the other.
Attempt == OnOpen \/ ConnectFail

FairSpec == Spec /\ WF_vars(Progress) /\ WF_vars(Attempt)

WNext ==
    \/ \E t \in Trades : ReadTrade(t)
    \/ EmitWatermark

\* The Flink job.
WindowSpec == Init /\ [][WNext]_vars

PNext ==
    \/ Enqueue
    \/ Transmit
    \/ \E r \in wire : LoseRequest(r)
    \/ \E r \in wire : BrokerAppend(r)
    \/ \E a \in acks : LoseAck(a)
    \/ \E a \in acks : ReceiveAck(a)
    \/ GiveUp

\* The producer's transport.
PublishSpec == Init /\ [][PNext]_vars

\* A call of _format_trade on any trade object, at either clock reading.
FormatInit ==
    /\ InitL /\ InitW /\ InitP
    /\ fmt_trade \in FormatInputs
    /\ fmt_now \in {NowAt(0), NowAt(1)}
    /\ fmt_record = NoRecord

FormatNext == FormatCall

\* _format_trade as a function of its input.
FormatSpec == FormatInit /\ [][FormatNext]_vars


(***************************************************************************)
(* Properties of the listener.                                             *)
(***************************************************************************)

\* C1: in a run of consecutive connection attempts that end without
\* _on_open (and without stop), the delays slept before the successive
\* reconnects are 1, 2, 4, 8, 16, 32, 60, 60, ...: the i-th is
\* min(2^(i-1), 60).
C1_BackoffSequence ==
    \A i \in 1..Len(delays) : delays[i] = Min(2 ^ (i - 1), 60)

\* Eight failures in a row: the cap is reached and held.
C1_Witness == delays = <<1, 2, 4, 8, 16, 32, 60, 60>>

\* C2: after _on_open has fired, the delay slept before the first reconnect
\* that follows the loss of that connection is 1, whatever the failures
\* before the open.
C2_ResetOnOpen == (sinceOpen /\ Len(delays) >= 1) => delays[1] = 1

\* A connection opened after at least two failures, was lost, and the first
\* delay after it has been slept.
C2_Witness == sinceOpen /\ openAfterFails /\ Len(delays) = 1 /\ ~stop_event

\* C3: once the stop event is set, no run_forever call begins.
C3_NoConnectAfterStop ==
    [][(pc = "run" /\ pc' = "connecting") => ~stop_event]_vars

\* C4: once stop() has set the stop event, start() eventually returns (or the
\* process exits).
C4_StopHaltsLoop == stop_event ~> (pc \in {"exited", "done"})

\* C5: whatever the number of stop() calls, the transport close and the
\* publisher flush are each performed at most once.
C5_ShutdownOnce == closeCalls <= 1 /\ flushCalls <= 1

\* A valid trade message: decodable JSON whose event type is "trade".
ValidTrade(m) ==
    /\ m.json = "dict"
    /\ Has(PayloadTrade(m), "e")
    /\ PayloadTrade(m).e = "trade"

\* A malformed payload: not decodable, no JSON object, of another message
\* type, or a trade without symbol, price or quantity.
Malformed(m) ==
    \/ ~ValidTrade(m)
    \/ ~({"s", "p", "q"} \subseteq PayloadTrade(m).keys)

\* C6: every valid trade message handled by _on_message has had exactly one
\* produce() call accepted by the publisher: none lost, none twice.
C6_ExactlyOnePerTrade == (pc # "produce") => accepted = validSeen

\* C7: a malformed payload produces no record.
C7_MalformedDropped == Malformed(msg) => outcome # "produced"

\* C17: while stop has not been requested, every end of a connection (the
\* connect failed, the connection was lost or closed) is followed by a new
\* connection attempt, unless a stop is requested first.
C17_Reconnects ==
    (pc = "returned" /\ ~stop_event) ~> (pc = "connecting" \/ stop_event)

\* A connection attempt made after a connection ended and the backoff delay
\* was slept, with no stop requested.
C17_Witness ==
    /\ pc = "connecting"
    /\ Len(delays) >= 1
    /\ ~stop_event
    /\ frames = <<>>

\* C19: _delivery_report called with an error changes nothing of the
\* listener: the call goes on where it was (nothing is raised into
\* _on_message), the connection, the backoff and the stop event stay as they
\* are, and the message being handled stays published; a trade message
\* received after the report is handed to produce() and, the queue having
\* room, accepted like any other.
C19_FailureReportChangesNothing ==
    [][/\ (pendingErr' < pendingErr /\ frames' = frames) =>
             UNCHANGED <<pc, stop_event, ws_app, app_closed, backoff_seconds,
                         queue, delivered, msgs, ghostL>>
       /\ (ReportedErr >= 1 /\ received' = received + 1 /\ ValidTrade(msg'))
             => pc' = "produce"
       /\ (ReportedErr >= 1 /\ pc = "produce" /\ pc' # "produce"
              /\ queue < QueueMax) =>
             (accepted' = accepted + 1 /\ outcome' = "produced")
      ]_vars

\* A delivery failure was reported by the poll(0) of one message, and the
\* next trade message has been received and formatted and is on its way to
\* produce(), with room in the queue.
C19_Witness ==
    /\ ReportedErr >= 1
    /\ flushCalls = 0
    /\ ValidTrade(msg)
    /\ pc = "produce"
    /\ queue < QueueMax
    /\ frames = <<>>

\* C20: no record is handed to produce() once stop() has run its flush.
C20_NoProduceAfterFlush ==
    [][(pc = "produce" /\ pc' # "produce") => flushCalls = 0]_vars

\* C15 as stated: the record has eventTime = the trade timestamp T when the
\* message carries one and the receipt time otherwise, ingestTime = the
\* receipt time, side = sell when the maker flag is set and buy otherwise,
\* tradeId = the feed's trade id t when present and the text of the ingest
\* time otherwise.
C15_FieldMapping ==
    fmt_record # NoRecord =>
        /\ fmt_record.ts =
              IF "T" \in fmt_trade.keys THEN fmt_trade.T ELSE fmt_now
        /\ fmt_record.ingest_ts = fmt_now
        /\ fmt_record.side = "sell" <=> ("m" \in fmt_trade.keys /\ fmt_trade.m)
        /\ fmt_record.side \in {"sell", "buy"}
        /\ fmt_record.trade_id =
              IF "t" \in fmt_trade.keys THEN Str(fmt_trade.t) ELSE Str(fmt_now)

\* The message carries a non-zero value under key k.
Carries(k) == k \in fmt_trade.keys /\ fmt_trade[k] # 0

\* C15, amended: eventTime = the trade timestamp T when the message carries a
\* non-zero one, else the event timestamp E when it carries a non-zero one,
\* else the receipt time; ingestTime = the receipt time; side = sell when the
\* maker flag is set and buy otherwise; tradeId = the text of the trade id t
\* when present, else of the aggregate trade id a when present, else of the
\* ingest time.
C15_FieldMappingWithFallbacks ==
    fmt_record # NoRecord =>
        /\ Carries("T") => fmt_record.ts = fmt_trade.T
        /\ (~Carries("T") /\ Carries("E")) => fmt_record.ts = fmt_trade.E
        /\ (~Carries("T") /\ ~Carries("E")) => fmt_record.ts = fmt_now
        /\ fmt_record.ingest_ts = fmt_now
        /\ fmt_record.side = "sell" <=> ("m" \in fmt_trade.keys /\ fmt_trade.m)
        /\ fmt_record.side \in {"sell", "buy"}
        /\ "t" \in fmt_trade.keys => fmt_record.trade_id = Str(fmt_trade.t)
        /\ ("t" \notin fmt_trade.keys /\ "a" \in fmt_trade.keys) =>
              fmt_record.trade_id = Str(fmt_trade.a)
        /\ ({"t", "a"} \cap fmt_trade.keys = {}) =>
              fmt_record.trade_id = Str(fmt_now)

\* A record built from a message without T and t that carries E and a.
C15_Witness ==
    /\ fmt_record # NoRecord
    /\ fmt_trade.keys \cap {"T", "E", "t", "a", "m"} = {"E", "a", "m"}
    /\ fmt_trade.E # 0
    /\ fmt_trade.m
    /\ fmt_record.side = "sell"

(***************************************************************************)
(* Properties of the job.                                                  *)
(***************************************************************************)

\* The entries of a bag h summed: the quantities, the prices, the rows.
RECURSIVE BagSum(_, _)
BagSum(h, what) ==
    IF h = {} THEN 0
    ELSE LET e == CHOOSE x \in h : TRUE
             v == CASE what = "qty" -> CastDouble(e.t.qty)
                    [] what = "price" -> CastDouble(e.t.price)
                    [] OTHER -> 1
         IN  e.n * v + BagSum(h \ {e}, what)

\* The trades read so far of row r's key with eventTime in r's window
\* [window_end - WindowSize, window_end).
InWindow(r) ==
    { e \in history :
        /\ e.t.symbol = r.symbol
        /\ e.t.exchange = r.exchange
        /\ r.window_end - WindowSize <= e.t.ts
        /\ e.t.ts < r.window_end }

\* Row r reports the sum of the quantities and the mean of the prices of
\* the trades of bag h.
Aggregates(r, h) ==
    /\ r.volume = BagSum(h, "qty")
    /\ r.avg_price.den = BagSum(h, "rows")
    /\ r.avg_price.num = BagSum(h, "price")

\* C8 as stated: every emitted row aggregates all the trades of its key with
\* eventTime in its window, whatever their arrival order.
C8_AllTradesAggregated ==
    \A i \in 1..Len(emitted) : Aggregates(emitted[i], InWindow(emitted[i]))

\* C8, amended: every emitted row aggregates the trades of its key with
\* eventTime in its window that were not dropped as late, whatever their
\* arrival order.
C8_AcceptedTradesAggregated ==
    \A i \in 1..Len(emitted) :
        Aggregates(emitted[i], { e \in InWindow(emitted[i]) : ~e.late })

\* A row of two or more trades, and a late trade for the same window.
C8_Witness ==
    \E i \in 1..Len(emitted) :
        /\ emitted[i].avg_price.den >= 2
        /\ \E e \in InWindow(emitted[i]) : e.late

SameWindow(r1, r2) ==
    /\ r1.symbol = r2.symbol
    /\ r1.exchange = r2.exchange
    /\ r1.window_end = r2.window_end

\* C9: at most one row is emitted per (exchange, symbol, windowStart).
C9_NoDuplicateWindow ==
    \A i, j \in 1..Len(emitted) :
        SameWindow(emitted[i], emitted[j]) => i = j

\* Two windows of one key emitted, and a late trade for one of them.
C9_Witness ==
    \E i, j \in 1..Len(emitted) :
        /\ emitted[i].symbol = emitted[j].symbol
        /\ emitted[i].window_end < emitted[j].window_end
        /\ \E e \in InWindow(emitted[i]) : e.late

\* The window of t's key that holds t's eventTime has been emitted.
WindowEmitted(t) ==
    \E i \in 1..Len(emitted) :
        /\ emitted[i].symbol = t.symbol
        /\ emitted[i].exchange = t.exchange
        /\ emitted[i].window_end - WindowSize <= t.ts
        /\ t.ts < emitted[i].window_end

\* C10: a trade that arrives for a window already emitted is dropped: no
\* accumulator is created, nothing is emitted, the emitted rows stay as they
\* are.
C10_ClosedWindowStaysClosed ==
    [][arrivals' = arrivals + 1 =>
          \A e \in history' \ history :
              WindowEmitted(e.t) =>
                  /\ e.late
                  /\ acc' = acc
                  /\ emitted' = emitted]_vars

\* A trade has arrived for an emitted window, at the very instant the window
\* fired (the watermark equals the window's last millisecond).
C10_Witness ==
    \E i \in 1..Len(emitted) :
        /\ watermark = emitted[i].window_end - 1
        /\ \E e \in InWindow(emitted[i]) : e.late


CountedIn(y, w) ==
    LET open == { a \in acc : a.symbol = y /\ a.start = w }
        rows == { i \in 1..Len(emitted) :
                    /\ emitted[i].symbol = y
                    /\ emitted[i].window_end = w + WindowSize }
    IN  (IF open = {} THEN 0 ELSE (CHOOSE a \in open : TRUE).cnt)
          + (IF rows = {} THEN 0
             ELSE emitted[CHOOSE i \in rows : TRUE].avg_price.den)

\* The trades of bag h of symbol y with eventTime in [w, w + WindowSize).
HalfOpen(h, y, w) ==
    { e \in h : e.t.symbol = y /\ w <= e.t.ts /\ e.t.ts < w + WindowSize }

\* C12 as stated: every trade read is counted in exactly one window, the
\* half-open window [windowStart, windowEnd) that holds its eventTime.
C12_EveryTradeInOneWindow ==
    \A y \in Symbols : \A k \in 0..2 :
        CountedIn(y, k * WindowSize)
            = BagSum(HalfOpen(history, y, k * WindowSize), "rows")

\* C12, amended: every trade that is not dropped as late is counted in
\* exactly one window, the half-open window [windowStart, windowEnd) that
\* holds its eventTime; a trade on a window boundary counts in the window
\* that starts there and not in the one that ends there.
C12_AcceptedTradeInOneWindow ==
    \A y \in Symbols : \A k \in 0..2 :
        CountedIn(y, k * WindowSize)
            = BagSum({ e \in HalfOpen(history, y, k * WindowSize) : ~e.late },
                     "rows")

\* A trade with eventTime = WindowSize has been counted, alone in the window
\* that starts there, next to a trade of the same key in the window before.
C12_Witness ==
    \E e \in history :
        /\ ~e.late
        /\ e.t.ts = WindowSize
        /\ CountedIn(e.t.symbol, WindowSize) = 1
        /\ CountedIn(e.t.symbol, 0) = 1
        /\ \E l \in history : l.late
\* Alert a is the alert of row r: signal, time, key and aggregates.
AlertFor(a, r) ==
    /\ a.signal = "volume_spike"
    /\ a.ts = r.window_end
    /\ a.symbol = r.symbol
    /\ a.exchange = r.exchange
    /\ a.volume = CastString(r.volume, 1)
    /\ a.avg_price = CastString(r.avg_price.num, r.avg_price.den)

\* C13: for every emitted row, exactly one alert with signal volume_spike,
\* ts = window_end and the row's symbol, exchange, volume and avg_price is
\* emitted if volume > 1.0 (10 tenths), and none otherwise, volume exactly 1.0
\* included; there is no alert without its row.
C13_AlertIffSpike ==
    /\ \A i \in 1..Len(emitted) :
          Cardinality({ j \in 1..Len(alerts) :
                          AlertFor(alerts[j], emitted[i]) })
              = IF emitted[i].volume > 10 THEN 1 ELSE 0
    /\ \A j \in 1..Len(alerts) :
          \E i \in 1..Len(emitted) : AlertFor(alerts[j], emitted[i])

\* Three trades of 0.3, 0.3 and 0.5 in one window: volume 1.1 and one alert.
C13_Witness ==
    \E i \in 1..Len(emitted) :
        /\ emitted[i].volume = 11
        /\ emitted[i].avg_price.den = 3
        /\ \E j \in 1..Len(alerts) : AlertFor(alerts[j], emitted[i])
(***************************************************************************)
(* Properties of the publisher.                                            *)
(***************************************************************************)

\* The number of entries of the log that hold send s.
Entries(s) == Cardinality({ i \in 1..Len(log) : log[i] = s })

\* C14: whatever requests and acknowledgements are lost and however often
\* the client transmits a send again, the log never holds two entries for
\* one send, and holds exactly one for a send reported delivered.
C14_NoDuplicateEntry ==
    \A s \in Sends :
        /\ Entries(s) <= 1
        /\ s \in acked => Entries(s) = 1

\* A send was transmitted twice, both requests reached the broker, and it
\* has been reported delivered.
C14_Witness ==
    \E s \in acked :
        /\ tries[s] = 2
        /\ \A r \in wire : r.seq # s
        /\ [seq |-> s, try |-> 2] \in acks
        /\ Entries(s) = 1
\* Some trade of bag h puts a watermark (its eventTime - 5 s) on or past the
\* last millisecond of the window that ends at window_end.
Passed(h, window_end) ==
    \E e \in h : window_end - 1 <= e.t.ts - Lateness

\* The trades read so far of symbol y.
OfKey(y) == { e \in history : e.t.symbol = y }

C18_AscendingWindowEnd ==
    /\ \A a \in acc : a.start + WindowSize - 1 > watermark
    /\ \A i, j \in 1..Len(emitted) :
          (i < j /\ emitted[i].symbol = emitted[j].symbol
                 /\ emitted[i].exchange = emitted[j].exchange)
              => emitted[i].window_end < emitted[j].window_end

\* Two windows of one key closed by one watermark advance: no trade read
\* could have put the watermark between their ends, and both are emitted.
C18_Witness ==
    /\ \A e \in history :
          e.t.ts < WindowSize + Lateness - 2 \/ e.t.ts >= 2 * WindowSize
    /\ \E i, j \in 1..Len(emitted) :
          /\ emitted[i].symbol = emitted[j].symbol
          /\ emitted[i].window_end = WindowSize
          /\ emitted[j].window_end = 2 * WindowSize

====
